---- MODULE Spec2Model ----
(***************************************************************************)
(* jfc::thread_group: a fixed-size group of worker threads that consume    *)
(* tasks from a queue held in reference-counted shared data.               *)
(*                                                                         *)
(* Threads of the model:                                                   *)
(*   - the owning thread, which constructs, moves and destroys pool        *)
(*     values one operation at a time (variable op is its position);      *)
(*   - one worker thread per spawned std::thread (pc, wshared, wtask);     *)
(*   - producers calling add_tasks (atomic queue operations);              *)
(*   - one external consumer calling try_get_task and invoking what it     *)
(*     receives (variable x).                                              *)
(* The task queue is moodycamel::ConcurrentQueue, which is not part of     *)
(* the sources; its three operations are modelled from its contract.       *)
(***************************************************************************)
EXTENDS Integers, Sequences, FiniteSets, TLC

\* ------------------------------------------------------------- bounds
MaxPools == 2
MaxWorkers == 2
MaxTasks == 1

\* width used for the unsigned result of hardware_concurrency(); TLC's
\* integers are 32 bit signed, so the modulus 2^UnsignedBits stays below 2^31
UnsignedBits == 30

Pools == 1..MaxPools
\* the shared_data_type made by the constructor of pool slot p is named p
Shared == Pools
Workers == 1..MaxWorkers
Tasks == 1..MaxTasks
\* values std::thread::hardware_concurrency() may report
HardwareValues == 0..(MaxWorkers + 1)

\* an empty std::shared_ptr
nullptr == 0
\* an empty std::function / std::nullopt
NoTask == 0

VARIABLES
    pstate,              \* pool slot: "none" | "alive" | "destroyed"
    m_SharedData,        \* pool -> shared data named, or nullptr
    m_Threads,           \* pool -> sequence of owned worker handles
    m_Thread_IDs,        \* pool -> sequence of identity tokens
    sstate,              \* shared data: "unborn" | "live" | "freed"
    refs,                \* shared data -> shared_ptr use count
    m_Tasks,             \* shared data -> queue contents
    m_GroupIsDestroyed,  \* shared data -> termination flag
    pc,                  \* worker: "unborn" | "dequeue" | "exec" | "flag" | "exited"
    wshared,             \* worker -> the shared data its closure captured
    wtask,               \* worker -> the task it dequeued
    joined,              \* worker handle -> join() has returned on it
    observed,            \* worker -> a flag load of it has returned true (history)
    op,                  \* the owning thread's operation in progress
    x,                   \* the external consumer
    nextWorker,          \* next unused worker identity
    nextTask,            \* next unused task identity
    waitingIn,           \* task -> shared data whose queue it was put in and
                         \*         not yet taken from (history), or nullptr
    delivered,           \* task -> number of successful dequeues returning it
    executed,            \* task -> number of times it was invoked
    crashed              \* "no" | "terminate" (std::terminate) | "ub"

vars == <<pstate, m_SharedData, m_Threads, m_Thread_IDs, sstate, refs, m_Tasks,
          m_GroupIsDestroyed, pc, wshared, wtask, joined, observed, op, x, nextWorker,
          nextTask, waitingIn, delivered, executed, crashed>>

poolVars == <<pstate, m_SharedData, m_Threads, m_Thread_IDs>>
sharedVars == <<sstate, refs, m_Tasks, m_GroupIsDestroyed>>
workerVars == <<pc, wshared, wtask, joined, observed, nextWorker>>
taskVars == <<nextTask, waitingIn, delivered, executed>>

\* ------------------------------------------------------------ helpers
Range(s) == {s[i] : i \in 1..Len(s)}

RemoveAt(q, i) == SubSeq(q, 1, i - 1) \o SubSeq(q, i + 1, Len(q))

Idle == [kind |-> "idle", dst |-> 0, src |-> 0, n |-> 0, hw |-> 0, deleg |-> FALSE]

XIdle == [pc |-> "idle", task |-> NoTask]

\* ---------------------------------------- moodycamel::ConcurrentQueue
\* enqueue(item): inserts one item
enqueue(q, t) == Append(q, t)

\* enqueue_bulk(first, count): inserts count items
enqueue_bulk(q, ts) == q \o ts

\* try_dequeue(item): the outcomes of one attempt. On an empty queue it
\* fails; otherwise it removes one item. Order across producers is
\* unspecified, so any queued item may be the one removed.
try_dequeue(q) ==
    IF q = << >>
    THEN {[ok |-> FALSE, item |-> NoTask, rest |-> q]}
    ELSE {[ok |-> TRUE, item |-> q[i], rest |-> RemoveAt(q, i)] : i \in 1..Len(q)}

\* ------------------------------------------------ std::shared_ptr
\* the effect of releasing one reference to shared data s: the last
\* release destroys the shared data, and its queue with it
Released(s) ==
    IF s = nullptr
    THEN [refs |-> refs, sstate |-> sstate, tasks |-> m_Tasks]
    ELSE [refs   |-> [refs EXCEPT ![s] = @ - 1],
          sstate |-> [sstate EXCEPT ![s] = IF refs[s] - 1 = 0 THEN "freed" ELSE @],
          tasks  |-> [m_Tasks EXCEPT ![s] = IF refs[s] - 1 = 0 THEN << >> ELSE @]]

\* ------------------------------------------------------------ Init
Init ==
    /\ pstate = [p \in Pools |-> "none"]
    /\ m_SharedData = [p \in Pools |-> nullptr]
    /\ m_Threads = [p \in Pools |-> << >>]
    /\ m_Thread_IDs = [p \in Pools |-> << >>]
    /\ sstate = [s \in Shared |-> "unborn"]
    /\ refs = [s \in Shared |-> 0]
    /\ m_Tasks = [s \in Shared |-> << >>]
    /\ m_GroupIsDestroyed = [s \in Shared |-> FALSE]
    /\ pc = [w \in Workers |-> "unborn"]
    /\ wshared = [w \in Workers |-> nullptr]
    /\ wtask = [w \in Workers |-> NoTask]
    /\ joined = [w \in Workers |-> FALSE]
    /\ observed = [w \in Workers |-> FALSE]
    /\ op = Idle
    /\ x = XIdle
    /\ nextWorker = 1
    /\ nextTask = 1
    /\ waitingIn = [t \in Tasks |-> nullptr]
    /\ delivered = [t \in Tasks |-> 0]
    /\ executed = [t \in Tasks |-> 0]
    /\ crashed = "no"

\* Pool values are automatic objects of the owning thread: they are
\* constructed in slot order and destroyed in reverse order of construction.
FreshSlot(p) == pstate[p] = "none" /\ \A q \in 1..(p - 1) : pstate[q] # "none"

LastAlive(p) == pstate[p] = "alive" /\ \A q \in (p + 1)..MaxPools : pstate[q] # "alive"

\* -------------------------------------------------------- accessors
\* size_t thread_group::thread_count() const
thread_count(p) == Len(m_Threads[p])

\* thread_id_collection_type thread_group::thread_ids() const
thread_ids(p) == m_Thread_IDs[p]

\* destroying these std::thread handles calls std::terminate
Joinable(ws) == \E w \in Range(ws) : ~joined[w]

\* ------------------------------------------------------ constructors
\* unsigned subtraction a - b
UnsignedSub(a, b) == (a - b) % (2 ^ UnsignedBits)

\* variant: the delegation passes hardware_concurrency() itself
DefaultThreadNumberNoReserve(h) == IF h > 1 THEN h ELSE 0

\* the argument the default constructor delegates with
DefaultThreadNumber(h) == IF h > 1 THEN UnsignedSub(h, 1) ELSE 0

\* the owning thread calls thread_group(size_t threadNumber) on slot p
CtorCall(p, n) ==
    /\ crashed = "no" /\ op.kind = "idle"
    /\ FreshSlot(p)
    /\ nextWorker + n <= MaxWorkers + 1
    /\ op' = [Idle EXCEPT !.kind = "ctor", !.dst = p, !.n = n]
    /\ UNCHANGED <<poolVars, sharedVars, workerVars, taskVars, x, crashed>>

\* the owning thread calls thread_group() on slot p while the platform
\* reports h hardware threads: it delegates to thread_group(size_t)
DefaultCtorCall(p, h) ==
    /\ crashed = "no" /\ op.kind = "idle"
    /\ FreshSlot(p)
    /\ nextWorker + DefaultThreadNumber(h) <= MaxWorkers + 1
    /\ op' = [Idle EXCEPT !.kind = "ctor", !.dst = p, !.n = DefaultThreadNumber(h),
                          !.hw = h, !.deleg = TRUE]
    /\ UNCHANGED <<poolVars, sharedVars, workerVars, taskVars, x, crashed>>

\* variant: the spawning loop runs once more (`i <= threadNumber`)
SpawnedOneMore(n) == [i \in 1..(n + 1) |-> nextWorker + i - 1]

\* the identities of the workers a constructor call with count n spawns
Spawned(n) == [i \in 1..n |-> nextWorker + i - 1]

\* variant: the closures capture `shared` by reference, adding no reference
CtorRefsPoolOnly(n) == 1 + 0 * n

\* the number of references the constructor leaves on the shared data:
\* m_SharedData and one copy of `shared` in each worker closure
CtorRefs(n) == 1 + n

\* body of thread_group(size_t threadNumber)
CtorBody ==
    /\ crashed = "no" /\ op.kind = "ctor"
    /\ LET p == op.dst
           n == op.n
           ws == Spawned(n)
       IN /\ pstate' = [pstate EXCEPT ![p] = "alive"]
          /\ m_SharedData' = [m_SharedData EXCEPT ![p] = p]
          /\ sstate' = [sstate EXCEPT ![p] = "live"]
          /\ refs' = [refs EXCEPT ![p] = CtorRefs(n)]
          /\ m_Threads' = [m_Threads EXCEPT ![p] = ws]
          /\ m_Thread_IDs' = [m_Thread_IDs EXCEPT ![p] = ws]
          /\ pc' = [w \in Workers |-> IF w \in Range(ws) THEN "dequeue" ELSE pc[w]]
          /\ wshared' = [w \in Workers |-> IF w \in Range(ws) THEN p ELSE wshared[w]]
          /\ nextWorker' = nextWorker + n
    /\ op' = Idle
    /\ UNCHANGED <<m_Tasks, m_GroupIsDestroyed, wtask, joined, observed, taskVars, x,
                   crashed>>

\* thread_group(size_t threadNumber) when the std::thread of iteration k
\* cannot be created: `std::thread(...)` throws std::system_error after k
\* workers were started. Nothing in the constructor catches it, so the
\* members are destroyed (the destructor body does not run: the object was
\* never complete) and the exception leaves the constructor. Destroying
\* m_Threads destroys the k joinable handles, which calls std::terminate;
\* with k = 0 nothing remains of the object and the caller has the exception.
CtorFails(k) ==
    /\ crashed = "no" /\ op.kind = "ctor"
    /\ k < op.n
    /\ LET p == op.dst
           ws == Spawned(k)
       IN IF Joinable(ws)
          THEN /\ m_SharedData' = [m_SharedData EXCEPT ![p] = p]
               /\ sstate' = [sstate EXCEPT ![p] = "live"]
               /\ refs' = [refs EXCEPT ![p] = CtorRefs(k)]
               /\ m_Threads' = [m_Threads EXCEPT ![p] = ws]
               /\ m_Thread_IDs' = [m_Thread_IDs EXCEPT ![p] = ws]
               /\ pc' = [w \in Workers |-> IF w \in Range(ws) THEN "dequeue" ELSE pc[w]]
               /\ wshared' = [w \in Workers |-> IF w \in Range(ws) THEN p ELSE wshared[w]]
               /\ nextWorker' = nextWorker + k
               /\ crashed' = "terminate"
               /\ UNCHANGED op
          ELSE /\ op' = Idle
               /\ UNCHANGED <<m_SharedData, sstate, refs, m_Threads, m_Thread_IDs, pc,
                              wshared, nextWorker, crashed>>
    /\ UNCHANGED <<pstate, m_Tasks, m_GroupIsDestroyed, wtask, joined, observed,
                   taskVars, x>>

\* ------------------------------------------------------- worker loop
\* `if (shared->m_Tasks.try_dequeue(task))`
WorkerDequeue(w) ==
    /\ crashed = "no" /\ pc[w] = "dequeue"
    /\ LET s == wshared[w]
       IN IF sstate[s] # "live"
          THEN /\ crashed' = "ub"
               /\ UNCHANGED <<poolVars, sharedVars, workerVars, taskVars, op, x>>
          ELSE \E r \in try_dequeue(m_Tasks[s]) :
               /\ m_Tasks' = [m_Tasks EXCEPT ![s] = r.rest]
               /\ pc' = [pc EXCEPT ![w] = IF r.ok THEN "exec" ELSE "flag"]
               /\ wtask' = [wtask EXCEPT ![w] = IF r.ok THEN r.item ELSE @]
               /\ delivered' = IF r.ok THEN [delivered EXCEPT ![r.item] = @ + 1]
                               ELSE delivered
               /\ waitingIn' = IF r.ok THEN [waitingIn EXCEPT ![r.item] = nullptr]
                               ELSE waitingIn
               /\ UNCHANGED <<poolVars, sstate, refs, m_GroupIsDestroyed, wshared,
                              joined, observed, nextWorker, nextTask, executed, op, x,
                              crashed>>

\* `task();`  The functor stays in `task` until the next try_dequeue
\* overwrites it; it is never read again, so the model forgets it here.
WorkerExec(w) ==
    /\ crashed = "no" /\ pc[w] = "exec"
    /\ executed' = [executed EXCEPT ![wtask[w]] = @ + 1]
    /\ pc' = [pc EXCEPT ![w] = "dequeue"]
    /\ wtask' = [wtask EXCEPT ![w] = NoTask]
    /\ UNCHANGED <<poolVars, sharedVars, wshared, joined, observed, nextWorker,
                   nextTask, waitingIn, delivered, op, x, crashed>>

\* variant: a plain bool whose load is hoisted out of the loop, so that the
\* worker keeps seeing the value from before the store
FlagLoadStale(s) == FALSE

\* variant: the exit test is inverted (`if (!...load()) break;`)
FlagLoadInverted(s) == ~m_GroupIsDestroyed[s]

\* `shared->m_GroupIsDestroyed.load(std::memory_order_relaxed)`: the flag is
\* a std::atomic<bool>, so the load returns the value last stored
FlagLoad(s) == m_GroupIsDestroyed[s]

\* `else if (shared->m_GroupIsDestroyed.load(std::memory_order_relaxed)) break;`
\* Leaving the loop ends the thread function; the closure and its copy of
\* `shared` are destroyed.
WorkerCheckFlag(w) ==
    /\ crashed = "no" /\ pc[w] = "flag"
    /\ LET s == wshared[w]
       IN IF sstate[s] # "live"
          THEN /\ crashed' = "ub"
               /\ UNCHANGED <<sharedVars, pc, observed>>
          ELSE IF FlagLoad(s)
          THEN /\ pc' = [pc EXCEPT ![w] = "exited"]
               /\ observed' = [observed EXCEPT ![w] = TRUE]
               /\ refs' = Released(s).refs
               /\ sstate' = Released(s).sstate
               /\ m_Tasks' = Released(s).tasks
               /\ UNCHANGED <<m_GroupIsDestroyed, crashed>>
          ELSE /\ pc' = [pc EXCEPT ![w] = "dequeue"]
               /\ UNCHANGED <<sharedVars, observed, crashed>>
    /\ UNCHANGED <<poolVars, wshared, wtask, joined, nextWorker, taskVars, op, x>>

\* --------------------------------------------- add_tasks, try_get_task
\* the owning thread is inside ~thread_group() of pool value p
InDtor(p) == op.kind = "dtor" /\ op.dst = p

\* a pool value the queue operations may be called on: its lifetime has
\* begun and not ended (it ends when its destructor starts), and its
\* m_SharedData can be dereferenced
Callable(p) == pstate[p] = "alive" /\ ~InDtor(p) /\ m_SharedData[p] # nullptr

\* variant: the task is not put in the queue
add_tasks_forgotten(q, t) == q

\* void thread_group::add_tasks(task_type &&task)
add_tasks(q, t) == enqueue(q, t)

\* variant: the bulk count is one short (`tasks.size() - 1`)
add_tasks_bulk_short(q, ts) == enqueue_bulk(q, SubSeq(ts, 1, Len(ts) - 1))

\* void thread_group::add_tasks(std::vector<task_type> &&tasks)
add_tasks_bulk(q, ts) == enqueue_bulk(q, ts)

\* variant: the dequeued task is not handed to the caller (`return {}`)
try_get_task_lossy(q) ==
    {[ret |-> NoTask, rest |-> r.rest] : r \in try_dequeue(q)}

\* variant: the task is returned but stays in the queue
try_get_task_peek(q) ==
    {[ret |-> IF r.ok THEN r.item ELSE NoTask, rest |-> q] : r \in try_dequeue(q)}

\* std::optional<task_type> thread_group::try_get_task(): the outcomes
try_get_task(q) ==
    {[ret |-> IF r.ok THEN r.item ELSE NoTask, rest |-> r.rest] : r \in try_dequeue(q)}

\* some thread calls add_tasks(task) on pool value p
AddTask(p) ==
    /\ crashed = "no" /\ Callable(p)
    /\ nextTask <= MaxTasks
    /\ LET s == m_SharedData[p]
       IN /\ m_Tasks' = [m_Tasks EXCEPT ![s] = add_tasks(@, nextTask)]
          /\ waitingIn' = [waitingIn EXCEPT ![nextTask] = s]
          /\ nextTask' = nextTask + 1
          /\ UNCHANGED <<poolVars, sstate, refs, m_GroupIsDestroyed, workerVars,
                         delivered, executed, op, x, crashed>>

\* some thread calls add_tasks(tasks) on pool value p with k tasks
AddTasksBulk(p, k) ==
    /\ crashed = "no" /\ Callable(p)
    /\ nextTask + k <= MaxTasks + 1
    /\ LET s == m_SharedData[p]
           ts == [i \in 1..k |-> nextTask + i - 1]
       IN /\ m_Tasks' = [m_Tasks EXCEPT ![s] = add_tasks_bulk(@, ts)]
          /\ waitingIn' = [t \in Tasks |-> IF t \in Range(ts) THEN s ELSE waitingIn[t]]
          /\ nextTask' = nextTask + k
          /\ UNCHANGED <<poolVars, sstate, refs, m_GroupIsDestroyed, workerVars,
                         delivered, executed, op, x, crashed>>

\* the external consumer runs `auto task = group.try_get_task()` on pool
\* value p; with std::nullopt its `if` does nothing more
XCall(p) ==
    /\ crashed = "no" /\ Callable(p)
    /\ x.pc = "idle"
    /\ LET s == m_SharedData[p]
       IN \E r \in try_get_task(m_Tasks[s]) :
          /\ m_Tasks' = [m_Tasks EXCEPT ![s] = r.rest]
          /\ x' = [pc |-> IF r.ret # NoTask THEN "some" ELSE "idle", task |-> r.ret]
          /\ delivered' = IF r.ret # NoTask
                          THEN [delivered EXCEPT ![r.ret] = @ + 1]
                          ELSE delivered
          /\ waitingIn' = IF r.ret # NoTask
                          THEN [waitingIn EXCEPT ![r.ret] = nullptr]
                          ELSE waitingIn
          /\ UNCHANGED <<poolVars, sstate, refs, m_GroupIsDestroyed, workerVars,
                         nextTask, executed, op, crashed>>

\* `if (auto task = ...) (*task)();` with a task
XInvoke ==
    /\ crashed = "no" /\ x.pc = "some"
    /\ executed' = [executed EXCEPT ![x.task] = @ + 1]
    /\ x' = XIdle
    /\ UNCHANGED <<poolVars, sharedVars, workerVars, nextTask, waitingIn, delivered,
                   op, crashed>>

\* ----------------------------------------------------------- moves
\* variant: the shared data stays where it was and the source is reset
MovedSharedDataLeftBehind(dst, src) ==
    IF dst = src THEN m_SharedData ELSE [m_SharedData EXCEPT ![src] = nullptr]

\* variant: the reference is copied (`m_SharedData = b.m_SharedData`)
MovedSharedDataCopied(dst, src) == [m_SharedData EXCEPT ![dst] = m_SharedData[src]]

\* `m_SharedData = std::move(b.m_SharedData);`
MovedSharedData(dst, src) ==
    IF dst = src
    THEN m_SharedData
    ELSE [m_SharedData EXCEPT ![dst] = m_SharedData[src], ![src] = nullptr]

\* variant: the handles are left in the source as well (no `b.m_Threads.clear()`
\* on a vector whose move assignment copies)
MovedThreadsCopied(dst, src) == [m_Threads EXCEPT ![dst] = m_Threads[src]]

\* `m_Threads = std::move(b.m_Threads);` and `b.m_Threads.clear();`
MovedThreads(dst, src) ==
    [m_Threads EXCEPT ![dst] = m_Threads[src], ![src] = << >>]

\* variant: m_Thread_IDs is copied, not moved (`m_Thread_IDs = b.m_Thread_IDs`)
MovedThreadIDsCopied(dst, src) == [m_Thread_IDs EXCEPT ![dst] = m_Thread_IDs[src]]

\* variant: the assignment of m_Thread_IDs is left out of operator=
MovedThreadIDsForgotten(dst, src) == m_Thread_IDs

\* `m_Thread_IDs = std::move(b.m_Thread_IDs);` between two pool values
MovedThreadIDs(dst, src) ==
    [m_Thread_IDs EXCEPT ![dst] = m_Thread_IDs[src], ![src] = << >>]

\* thread_group &operator=(thread_group &&b):
\*   `m_SharedData = std::move(b.m_SharedData);`  shared_ptr move assignment
\*       is shared_ptr(std::move(r)).swap(*this): the destination's old
\*       reference is released, and a self-move changes nothing
\*   `m_Threads = std::move(b.m_Threads);`  destroys the handles the
\*       destination held; a self-move leaves the vector as it was or empty
\*   `m_Thread_IDs = std::move(b.m_Thread_IDs);`  likewise
\*   `b.m_Threads.clear();`  destroys whatever b.m_Threads still holds
\* Destroying a joinable std::thread calls std::terminate.
operator_assign(dst, src) ==
    /\ m_SharedData' = MovedSharedData(dst, src)
    /\ LET old == IF dst = src THEN nullptr ELSE m_SharedData[dst]
       IN /\ refs' = Released(old).refs
          /\ sstate' = Released(old).sstate
          /\ m_Tasks' = Released(old).tasks
    /\ IF Joinable(m_Threads[dst])
       THEN /\ crashed' = "terminate"
            /\ UNCHANGED <<m_Threads, m_Thread_IDs>>
       ELSE /\ m_Threads' = MovedThreads(dst, src)
            /\ \/ m_Thread_IDs' = MovedThreadIDs(dst, src)
               \/ /\ dst = src
                  /\ m_Thread_IDs' = m_Thread_IDs
            /\ UNCHANGED crashed

\* the owning thread move-assigns pool value src to pool value dst
MoveAssign(dst, src) ==
    /\ crashed = "no" /\ op.kind = "idle"
    /\ pstate[dst] = "alive" /\ pstate[src] = "alive"
    /\ operator_assign(dst, src)
    /\ UNCHANGED <<pstate, m_GroupIsDestroyed, workerVars, taskVars, op, x>>

\* thread_group(thread_group &&b) on slot dst: the members are
\* default-initialised, then `(*this) = std::move(b)` runs
MoveCtor(dst, src) ==
    /\ crashed = "no" /\ op.kind = "idle"
    /\ FreshSlot(dst) /\ pstate[src] = "alive"
    /\ pstate' = [pstate EXCEPT ![dst] = "alive"]
    /\ operator_assign(dst, src)
    /\ UNCHANGED <<m_GroupIsDestroyed, workerVars, taskVars, op, x>>

\* ------------------------------------------------------- destructor
\* variant: the destructor signals and joins without the emptiness test
OwnsThreadsAlways(p) == TRUE

\* variant: the emptiness test is inverted (`if (m_Threads.empty())`)
OwnsThreadsInverted(p) == m_Threads[p] = << >>

\* `if (!m_Threads.empty())`
OwnsThreads(p) == m_Threads[p] # << >>

\* what the end of ~thread_group() does to pool value p: the members
\* m_Thread_IDs, m_Threads and m_SharedData are destroyed
DestroyMembers(p) ==
    IF Joinable(m_Threads[p])
    THEN /\ crashed' = "terminate"
         /\ UNCHANGED <<poolVars, sstate, refs, m_Tasks>>
    ELSE /\ pstate' = [pstate EXCEPT ![p] = "destroyed"]
         /\ m_Thread_IDs' = [m_Thread_IDs EXCEPT ![p] = << >>]
         /\ m_Threads' = [m_Threads EXCEPT ![p] = << >>]
         /\ m_SharedData' = [m_SharedData EXCEPT ![p] = nullptr]
         /\ refs' = Released(m_SharedData[p]).refs
         /\ sstate' = Released(m_SharedData[p]).sstate
         /\ m_Tasks' = Released(m_SharedData[p]).tasks
         /\ UNCHANGED crashed

\* variant: the store inverts the flag (`m_GroupIsDestroyed = !m_GroupIsDestroyed`)
FlagStoreFlip(s) == [m_GroupIsDestroyed EXCEPT ![s] = ~@]

\* `m_SharedData->m_GroupIsDestroyed = true;` on shared data s
FlagStore(s) == [m_GroupIsDestroyed EXCEPT ![s] = TRUE]

\* the owning thread runs ~thread_group() on pool value p:
\*   `if (!m_Threads.empty()) { m_SharedData->m_GroupIsDestroyed = true;`
\* and goes on to the joins (dereferencing an empty m_SharedData is
\* undefined); with no thread owned the body does nothing and the members
\* are destroyed at once
Dtor(p) ==
    /\ crashed = "no" /\ op.kind = "idle"
    /\ LastAlive(p)
    /\ IF OwnsThreads(p)
       THEN IF m_SharedData[p] = nullptr
            THEN /\ crashed' = "ub"
                 /\ UNCHANGED <<poolVars, sharedVars, op>>
            ELSE /\ m_GroupIsDestroyed' = FlagStore(m_SharedData[p])
                 /\ op' = [Idle EXCEPT !.kind = "dtor", !.dst = p, !.n = 1]
                 /\ UNCHANGED <<poolVars, sstate, refs, m_Tasks, crashed>>
       ELSE /\ DestroyMembers(p)
            /\ UNCHANGED <<m_GroupIsDestroyed, op>>
    /\ UNCHANGED <<workerVars, taskVars, x>>

\* variant: the handle is released without waiting (detach for join)
JoinReturnsAtOnce(w) == TRUE

\* std::thread::join() returns once the thread function has returned
JoinReturns(w) == pc[w] = "exited"

\* `for (auto &current_thread : m_Threads) current_thread.join();`
DtorJoin ==
    /\ crashed = "no" /\ op.kind = "dtor"
    /\ op.n <= Len(m_Threads[op.dst])
    /\ LET w == m_Threads[op.dst][op.n]
       IN /\ JoinReturns(w)
          /\ joined' = [joined EXCEPT ![w] = TRUE]
    /\ op' = [op EXCEPT !.n = @ + 1]
    /\ UNCHANGED <<poolVars, sharedVars, pc, wshared, wtask, observed, nextWorker,
                   taskVars, x, crashed>>

\* end of ~thread_group() after the joins
DtorEnd ==
    /\ crashed = "no" /\ op.kind = "dtor"
    /\ op.n > Len(m_Threads[op.dst])
    /\ DestroyMembers(op.dst)
    /\ op' = IF crashed' = "no" THEN Idle ELSE op
    /\ UNCHANGED <<m_GroupIsDestroyed, workerVars, taskVars, x>>

\* the external consumer calls try_get_task on the pool value that holds
\* shared data s
XCallOn(s) == \E p \in Pools : m_SharedData[p] = s /\ XCall(p)

\* ------------------------------------------------------------ Next
Next ==
    \/ \E p \in Pools, n \in 0..MaxWorkers : CtorCall(p, n)
    \/ \E p \in Pools, h \in HardwareValues : DefaultCtorCall(p, h)
    \/ CtorBody
    \/ \E k \in 0..MaxWorkers : CtorFails(k)
    \/ \E w \in Workers : WorkerDequeue(w)
    \/ \E w \in Workers : WorkerExec(w)
    \/ \E w \in Workers : WorkerCheckFlag(w)
    \/ \E p \in Pools : AddTask(p)
    \/ \E p \in Pools, k \in 0..MaxTasks : AddTasksBulk(p, k)
    \/ \E p \in Pools : XCall(p)
    \/ XInvoke
    \/ \E dst \in Pools, src \in Pools : MoveAssign(dst, src)
    \/ \E dst \in Pools, src \in Pools : MoveCtor(dst, src)
    \/ \E p \in Pools : Dtor(p)
    \/ DtorJoin
    \/ DtorEnd

Spec == Init /\ [][Next]_vars

\* every worker thread keeps being scheduled, and so does the owning
\* thread while it is inside the destructor
Fairness ==
    /\ \A w \in Workers : WF_vars(WorkerDequeue(w))
    /\ \A w \in Workers : WF_vars(WorkerExec(w))
    /\ \A w \in Workers : WF_vars(WorkerCheckFlag(w))
    /\ WF_vars(DtorJoin)
    /\ WF_vars(DtorEnd)

FairSpec == Spec /\ Fairness

\* an external consumer that keeps calling try_get_task on every pool it
\* can reach and runs what it receives
XFairness ==
    /\ WF_vars(XInvoke)
    /\ \A s \in Shared : SF_vars(XCallOn(s))

TypeOK ==
    /\ pstate \in [Pools -> {"none", "alive", "destroyed"}]
    /\ m_SharedData \in [Pools -> Shared \cup {nullptr}]
    /\ sstate \in [Shared -> {"unborn", "live", "freed"}]
    /\ refs \in [Shared -> 0..(MaxWorkers + MaxPools)]
    /\ m_GroupIsDestroyed \in [Shared -> BOOLEAN]
    /\ pc \in [Workers -> {"unborn", "dequeue", "exec", "flag", "exited"}]
    /\ joined \in [Workers -> BOOLEAN]
    /\ observed \in [Workers -> BOOLEAN]
    /\ crashed \in {"no", "terminate", "ub"}
    /\ \A t \in Tasks : delivered[t] \in 0..1 /\ executed[t] \in 0..1

\* =========================================================== properties
\* the number of times task t occurs in queue contents q
Occurrences(q, t) == Cardinality({i \in 1..Len(q) : q[i] = t})

\* the shared data in whose queue task t is
QueuedIn(t) == {s \in Shared : Occurrences(m_Tasks[s], t) > 0}

\* worker w is inside its loop
Running(w) == pc[w] \in {"dequeue", "exec", "flag"}

\* worker handle w is held in the m_Threads of a pool value (alive or under
\* construction) whose lifetime has not ended
Owned(w) == \E p \in Pools : pstate[p] # "destroyed" /\ w \in Range(m_Threads[p])

\* no worker closure was ever made for shared data s
ZeroWorker(s) == \A w \in Workers : wshared[w] # s

\* the shared_ptr copies that name shared data s: pool members and the
\* closures of workers that have not returned
Holders(s) ==
    Cardinality({p \in Pools : m_SharedData[p] = s})
        + Cardinality({w \in Workers : Running(w) /\ wshared[w] = s})

Max(a, b) == IF a >= b THEN a ELSE b

C2_DtorSignalsThenJoins ==
    /\ \A w \in Workers : joined[w] => pc[w] = "exited"
    /\ \A p \in Pools : InDtor(p) =>
          /\ \A w \in Range(m_Threads[p]) :
                wshared[w] = m_SharedData[p] /\ m_GroupIsDestroyed[wshared[w]]
          /\ \A i \in 1..Len(m_Threads[p]) : i < op.n => joined[m_Threads[p][i]]
    /\ \A w \in Workers :
          pc[w] # "unborn" /\ ~Owned(w) => pc[w] = "exited" /\ joined[w]

\* the destructor of a pool value that received its workers by a move has
\* joined all of them
C2_Witness ==
    \E p \in Pools :
        /\ InDtor(p)
        /\ m_SharedData[p] # p
        /\ Len(m_Threads[p]) = MaxWorkers
        /\ op.n > Len(m_Threads[p])

\* C3: with every worker and the destroying thread scheduled fairly, and
\* nothing enqueued once the flag is set, a destructor that has started
\* returns, whether or not tasks were pending when it started. (The owning
\* thread leaves the destructor only through DtorEnd, which ends the
\* lifetime of the pool value.)
C3_DtorReturns == (op.kind = "dtor") ~> (op.kind = "idle")

\* a destructor at work while the queue of its pool is full of pending tasks
C3_Witness ==
    \E p \in Pools :
        /\ InDtor(p)
        /\ Len(m_Tasks[m_SharedData[p]]) = MaxTasks

\* C4: a move (constructor or assignment) into a pool value that owns no
\* worker leaves the source with thread_count() = 0 and gives the
\* destination the source's thread count and its thread_ids; being true of
\* every move, it is true along a chain of moves.
C4_MoveTransfersThreads ==
    [][\A dst \in Pools, src \in Pools :
          (MoveAssign(dst, src) \/ MoveCtor(dst, src)) /\ ~OwnsThreads(dst) =>
              /\ Len(m_Threads'[src]) = 0
              /\ Len(m_Threads'[dst]) = thread_count(src)
              /\ m_Thread_IDs'[dst] = thread_ids(src)]_vars

\* a pool value has its workers back after they were moved to a later pool
\* value and moved back
C4_Witness ==
    \E dst \in Pools, src \in Pools :
        /\ dst < src
        /\ pstate[dst] = "alive" /\ pstate[src] = "alive"
        /\ m_SharedData[src] = nullptr /\ thread_count(src) = 0
        /\ m_SharedData[dst] = dst
        /\ thread_count(dst) = MaxWorkers
        /\ thread_ids(dst) = m_Threads[dst]

\* C5: a move assignment onto a pool value that owns workers (itself
\* included) first signals and joins those workers and then takes the
\* source's state: the program goes on, and every handle the destination
\* held is joined on a worker that has exited.
C5_MoveAssignDestroysThenTransfers ==
    [][\A dst \in Pools, src \in Pools :
          MoveAssign(dst, src) /\ OwnsThreads(dst) =>
              /\ crashed' = "no"
              /\ \A w \in Range(m_Threads[dst]) :
                    joined'[w] /\ pc'[w] = "exited"]_vars

\* C6: thread_group(N) spawns exactly N workers: when it returns (normally)
\* thread_count() is N, thread_ids() has N entries, and exactly N workers
\* have started, all of them on the handles of the new pool value.
C6_CtorSpawnsExactlyN ==
    [][op.kind = "ctor" /\ op'.kind = "idle" /\ pstate'[op.dst] = "alive" =>
          LET p == op.dst
              started == {w \in Workers : pc[w] = "unborn" /\ pc'[w] # "unborn"}
          IN /\ pstate'[p] = "alive"
             /\ Len(m_Threads'[p]) = op.n
             /\ Len(m_Thread_IDs'[p]) = op.n
             /\ Cardinality(started) = op.n
             /\ started = Range(m_Threads'[p])
             /\ \A w \in started : pc'[w] = "dequeue" /\ wshared'[w] = m_SharedData'[p]]_vars

\* a pool value constructed with the largest N beside one constructed with 0
C6_Witness ==
    \E p \in Pools, q \in Pools :
        /\ op.kind = "idle"
        /\ m_SharedData[p] = p /\ m_SharedData[q] = q
        /\ thread_count(p) = MaxWorkers /\ Len(thread_ids(p)) = MaxWorkers
        /\ thread_count(q) = 0 /\ thread_ids(q) = << >>

\* C7: thread_group() on a platform reporting h hardware threads yields
\* thread_count() = max(h - 1, 0); h = 0 gives 0 and not a wrapped count.
C7_DefaultCtorThreadCount ==
    [][op.kind = "ctor" /\ op.deleg /\ op'.kind = "idle" /\ pstate'[op.dst] = "alive" =>
          Len(m_Threads'[op.dst]) = Max(op.hw - 1, 0)]_vars

\* the default constructor has delegated while the platform reports 0
C7_Witness == op.kind = "ctor" /\ op.deleg /\ op.hw = 0 /\ op.n = 0

\* C8: tasks put in a pool that has no worker stay queued and unexecuted;
\* they leave the queue only one at a time through a try_get_task call,
\* which hands the task to its caller without running it; while tasks are
\* queued a call returns one of them, on the empty queue it returns none,
\* and in either case the call can complete.
C8_ZeroWorkerPoolIsCallerDriven ==
    /\ [](\A s \in Shared : sstate[s] = "live" /\ ZeroWorker(s) =>
             /\ try_get_task(m_Tasks[s]) # {}
             /\ \A r \in try_get_task(m_Tasks[s]) :
                   IF m_Tasks[s] = << >>
                   THEN r.ret = NoTask /\ r.rest = << >>
                   ELSE /\ r.ret \in Range(m_Tasks[s])
                        /\ Len(r.rest) = Len(m_Tasks[s]) - 1
             /\ \A i \in 1..Len(m_Tasks[s]) :
                   executed[m_Tasks[s][i]] = 0 /\ delivered[m_Tasks[s][i]] = 0
             /\ \A p \in Pools :
                   crashed = "no" /\ Callable(p) /\ m_SharedData[p] = s /\ x.pc = "idle"
                       => ENABLED XCall(p))
    /\ [][\A s \in Shared :
             /\ sstate[s] = "live" /\ ZeroWorker(s) /\ sstate'[s] = "live"
             /\ Len(m_Tasks'[s]) < Len(m_Tasks[s])
             => /\ x.pc = "idle" /\ x'.pc = "some"
                /\ x'.task \in Range(m_Tasks[s])
                /\ Len(m_Tasks'[s]) = Len(m_Tasks[s]) - 1
                /\ executed' = executed]_vars

\* no worker exists; every task was enqueued; the caller has taken them all
\* out, run all but the one it holds, and the queues are empty
C8_Witness ==
    /\ \A w \in Workers : pc[w] = "unborn"
    /\ nextTask = MaxTasks + 1
    /\ x.pc = "some"
    /\ \A t \in Tasks \ {x.task} : executed[t] = 1
    /\ executed[x.task] = 0
    /\ \E p \in Pools : Callable(p) /\ m_Tasks[m_SharedData[p]] = << >>

\* C9: the destructor of a pool value that owns no worker handle writes no
\* termination flag, waits for nothing and returns at once; tasks pending in
\* its queue are not executed by it, and once dropped with the queue they
\* are never handed out or executed.
C9_EmptyPoolDtorIsInert ==
    /\ [][\A p \in Pools : Dtor(p) /\ thread_count(p) = 0 =>
             /\ m_GroupIsDestroyed' = m_GroupIsDestroyed
             /\ op' = op
             /\ pstate'[p] = "destroyed"
             /\ crashed' = "no"
             /\ executed' = executed /\ delivered' = delivered
             /\ pc' = pc /\ joined' = joined]_vars
    /\ [](\A t \in Tasks :
             waitingIn[t] # nullptr /\ sstate[waitingIn[t]] = "freed"
                 => executed[t] = 0 /\ delivered[t] = 0)

\* the only pool value ever made had no worker and was destroyed with a
\* task pending; its flag was never written
C9_Witness ==
    /\ pstate[1] = "destroyed"
    /\ \A p \in Pools \ {1} : pstate[p] = "none"
    /\ nextWorker = 1
    /\ sstate[1] = "freed" /\ ~m_GroupIsDestroyed[1]
    /\ \E t \in Tasks : waitingIn[t] = 1

\* C10: shared data is destroyed only after the pool's reference and the
\* reference of every worker closure are released: the use count is the
\* number of holders, destroyed shared data has no holder, and a worker
\* inside its loop always has live shared data.
C10_SharedDataOutlivesItsUsers ==
    /\ crashed # "ub"
    /\ \A w \in Workers : Running(w) => sstate[wshared[w]] = "live"
    /\ \A s \in Shared :
          /\ sstate[s] = "live" => refs[s] = Holders(s) /\ refs[s] > 0
          /\ sstate[s] # "live" => refs[s] = 0 /\ Holders(s) = 0

\* one shared data was destroyed after its pool and its worker let go of it,
\* while a worker of another pool is inside its loop
C10_Witness ==
    \E w1 \in Workers, w2 \in Workers :
        /\ pc[w1] = "exited" /\ sstate[wshared[w1]] = "freed"
        /\ Running(w2) /\ sstate[wshared[w2]] = "live"

\* the pool values whose m_Threads holds worker handle w
OwnersOf(w) == {p \in Pools : w \in Range(m_Threads[p])}

\* C11: the termination flag is monotonic: false when the shared data is
\* made, never reset to false by any step of any thread once true, and the
\* store that sets it leaves a flag that is already true as it is.
C11_FlagMonotonic ==
    /\ [](\A s \in Shared :
             /\ sstate[s] = "unborn" => ~m_GroupIsDestroyed[s]
             /\ FlagStore(s)[s]
             /\ m_GroupIsDestroyed[s] => FlagStore(s) = m_GroupIsDestroyed)
    /\ [][\A s \in Shared :
             /\ m_GroupIsDestroyed[s] => m_GroupIsDestroyed'[s]
             /\ sstate[s] = "unborn" /\ sstate'[s] = "live" => ~m_GroupIsDestroyed'[s]]_vars

\* one shared data kept its flag through the exit of its workers, the joins
\* and its destruction, while another is live with its flag still false
C11_Witness ==
    \E s1 \in Shared, s2 \in Shared :
        /\ sstate[s1] = "freed" /\ m_GroupIsDestroyed[s1]
        /\ sstate[s2] = "live" /\ ~m_GroupIsDestroyed[s2]

\* C12: a spawned worker handle is held by at most one pool value, and at
\* most once; a handle is joined only by the destructor of the one pool
\* value that holds it then, never a second time; and a spawned worker
\* that no pool value holds any more has been joined.
C12_ExclusiveOwnership ==
    /\ [](\A w \in Workers :
             /\ Cardinality(OwnersOf(w)) <= 1
             /\ \A p \in Pools :
                   Cardinality({i \in 1..Len(m_Threads[p]) : m_Threads[p][i] = w}) <= 1
             /\ pc[w] = "unborn" => OwnersOf(w) = {}
             /\ pc[w] # "unborn" /\ OwnersOf(w) = {} => joined[w])
    /\ [][\A w \in Workers : joined'[w] # joined[w] =>
             /\ ~joined[w]
             /\ op.kind = "dtor"
             /\ OwnersOf(w) = {op.dst}
             /\ m_Threads[op.dst][op.n] = w]_vars
    /\ [][DtorJoin => ~joined[m_Threads[op.dst][op.n]]]_vars

\* every worker was spawned by a pool value that is still alive but holds
\* nothing any more, and every worker has been joined: the destructor of
\* the pool value they were moved to joined them
C12_Witness ==
    /\ nextWorker = MaxWorkers + 1
    /\ \A w \in Workers : joined[w]
    /\ \E p \in Pools :
          /\ pstate[p] = "alive" /\ m_SharedData[p] = nullptr
          /\ \A w \in Workers : wshared[w] = p

\* C13: a move construction, or a move assignment onto a pool value that
\* owns no worker, leaves the termination flag, the contents of the moved
\* queue and every worker's position unchanged, and the destination then
\* names the shared data its workers consume from, so that tasks enqueued
\* through it reach those workers.
C13_MoveKeepsWorkersRunning ==
    /\ [][\A dst \in Pools, src \in Pools :
             (MoveAssign(dst, src) \/ MoveCtor(dst, src)) /\ ~OwnsThreads(dst) =>
                 /\ m_GroupIsDestroyed' = m_GroupIsDestroyed
                 /\ pc' = pc /\ wshared' = wshared /\ wtask' = wtask
                 /\ m_SharedData[src] # nullptr =>
                       /\ sstate'[m_SharedData[src]] = "live"
                       /\ m_Tasks'[m_SharedData[src]] = m_Tasks[m_SharedData[src]]
                 /\ m_SharedData'[dst] = m_SharedData[src]
                 /\ \A w \in Range(m_Threads'[dst]) : wshared[w] = m_SharedData'[dst]]_vars
    /\ [](crashed = "no" =>
             \A p \in Pools : \A w \in Range(m_Threads[p]) :
                 m_SharedData[p] # nullptr /\ wshared[w] = m_SharedData[p])

\* a pool value that received all workers by a move: they are all inside
\* their loop, the flag is false, and a task waits in the queue it names
C13_Witness ==
    \E p \in Pools :
        /\ pstate[p] = "alive" /\ ~InDtor(p)
        /\ m_SharedData[p] # nullptr /\ m_SharedData[p] # p
        /\ thread_count(p) = MaxWorkers
        /\ \A w \in Range(m_Threads[p]) : Running(w)
        /\ ~m_GroupIsDestroyed[m_SharedData[p]]
        /\ m_Tasks[m_SharedData[p]] # << >>

\* C14: when the creation of the worker of spawn index k fails, for any
\* k < N, the constructor hands the error to its caller: the program goes
\* on, the owning thread is out of the constructor, and no worker spawned
\* by the failed construction is left running without being signalled or
\* joined.
C14_CtorFailurePropagates ==
    [][\A k \in 0..MaxWorkers : CtorFails(k) =>
          /\ crashed' = "no"
          /\ op'.kind = "idle"
          /\ \A w \in Workers :
                pc[w] = "unborn" /\ pc'[w] # "unborn"
                    => joined'[w] \/ m_GroupIsDestroyed'[wshared'[w]]]_vars

\* task t needs no further consumption: it was executed, or the program
\* has stopped, or the shared data it waited in is destroyed
Done(t) ==
    \/ executed[t] = 1
    \/ crashed # "no"
    \/ waitingIn[t] # nullptr /\ sstate[waitingIn[t]] = "freed"

\* C15: under fair scheduling, a task enqueued (singly or in bulk) in a pool
\* that has workers is eventually executed, unless an external consumer
\* takes it, the pool is destroyed or the program stops; and when an
\* external consumer keeps calling try_get_task and running what it
\* receives, every enqueued task, also of a pool without workers, is
\* eventually executed unless its pool is destroyed or the program stops.
C15_EventualConsumption ==
    /\ \A t \in Tasks :
          (waitingIn[t] # nullptr /\ ~ZeroWorker(waitingIn[t]))
              ~> (Done(t) \/ x.task = t)
    /\ XFairness => \A t \in Tasks : (waitingIn[t] # nullptr) ~> Done(t)

\* every task was enqueued and executed, the queues are empty, and a pool
\* value with workers is still alive
C15_Witness ==
    /\ nextTask = MaxTasks + 1
    /\ \A t \in Tasks : executed[t] = 1
    /\ x.pc = "idle"
    /\ \E p \in Pools : Callable(p) /\ OwnsThreads(p) /\ m_Tasks[m_SharedData[p]] = << >>

\* C16: the worker loop. A worker is RUNNING (at its dequeue attempt,
\* executing a task, or at its flag read) or EXITED, and EXITED is terminal.
\* A successful dequeue is followed by the execution of that task, which can
\* always proceed, flag set or not, and leads back to a dequeue attempt; an
\* empty dequeue is followed by a flag read, which leads to EXITED when the
\* flag is true and back to a dequeue attempt when it is false; there is no
\* other way to EXITED.
C16_WorkerLoopStateMachine ==
    /\ [](\A w \in Workers :
             /\ pc[w] \in {"unborn", "dequeue", "exec", "flag", "exited"}
             /\ pc[w] = "exec" => wtask[w] # NoTask
             /\ pc[w] = "exec" /\ crashed = "no" => ENABLED WorkerExec(w))
    /\ [][\A w \in Workers : pc'[w] # pc[w] =>
             CASE pc[w] = "unborn" -> pc'[w] = "dequeue"
               [] pc[w] = "dequeue" ->
                     IF m_Tasks[wshared[w]] = << >>
                     THEN pc'[w] = "flag"
                     ELSE pc'[w] = "exec" /\ wtask'[w] \in Range(m_Tasks[wshared[w]])
               [] pc[w] = "exec" ->
                     /\ pc'[w] = "dequeue"
                     /\ executed'[wtask[w]] = executed[wtask[w]] + 1
               [] pc[w] = "flag" ->
                     pc'[w] = IF m_GroupIsDestroyed[wshared[w]] THEN "exited" ELSE "dequeue"
               [] OTHER -> FALSE]_vars

\* a worker is executing a task while the flag is set and another worker of
\* the same pool has exited
C16_Witness ==
    \E w1 \in Workers, w2 \in Workers :
        /\ pc[w1] = "exec" /\ m_GroupIsDestroyed[wshared[w1]]
        /\ pc[w2] = "exited" /\ wshared[w2] = wshared[w1]

\* C17: a worker goes to EXITED only after a dequeue attempt that it made
\* after reading the termination flag as true came back empty; so at the
\* step that takes it to EXITED it has read the flag as true before.
C17_FinalRecheckAfterTermination ==
    [][\A w \in Workers : pc[w] # "exited" /\ pc'[w] = "exited" => observed[w]]_vars

\* C18: when a pool with workers is destroyed and nothing is enqueued after
\* the flag is set, the queue is empty whenever one of its workers goes to
\* EXITED, and so no task is left in the queue when the destructor returns.
C18_NoExitWithTasksQueued ==
    /\ [][\A w \in Workers :
             pc[w] # "exited" /\ pc'[w] = "exited" => m_Tasks[wshared[w]] = << >>]_vars
    /\ [][DtorEnd /\ crashed' = "no" =>
             \A t \in Tasks : waitingIn[t] # m_SharedData[op.dst]]_vars

\* C19: add_tasks, single and bulk, and try_get_task change the queue of
\* the pool they are called on and nothing else of the pool: handles,
\* identity tokens, flag, shared data and worker positions stay as they
\* are. The single add_tasks makes the queue 1 longer, the bulk one k
\* longer (an empty sequence leaves it as it is), and try_get_task makes
\* it 1 shorter when it returns a task and leaves it alone otherwise.
C19_QueueOperationsFrame ==
    /\ [](\A s \in Shared : add_tasks_bulk(m_Tasks[s], << >>) = m_Tasks[s])
    /\ [][\A p \in Pools :
             LET s == m_SharedData[p]
                 frame == /\ poolVars' = poolVars
                          /\ m_GroupIsDestroyed' = m_GroupIsDestroyed
                          /\ sstate' = sstate /\ refs' = refs
                          /\ workerVars' = workerVars
                          /\ \A s2 \in Shared \ {s} : m_Tasks'[s2] = m_Tasks[s2]
             IN /\ AddTask(p) => frame /\ Len(m_Tasks'[s]) = Len(m_Tasks[s]) + 1
                /\ \A k \in 0..MaxTasks :
                      AddTasksBulk(p, k) => frame /\ Len(m_Tasks'[s]) = Len(m_Tasks[s]) + k
                /\ XCall(p) =>
                      /\ frame
                      /\ Len(m_Tasks'[s]) =
                            Len(m_Tasks[s]) - (IF x'.pc = "some" THEN 1 ELSE 0)]_vars

\* a pool value still holding the shared data and the workers it was
\* constructed with, all of them running, with as many tasks queued as can be
C19_Witness ==
    \E p \in Pools :
        /\ Callable(p) /\ m_SharedData[p] = p
        /\ thread_count(p) = MaxWorkers /\ Len(thread_ids(p)) = MaxWorkers
        /\ \A w \in Range(m_Threads[p]) : Running(w)
        /\ ~m_GroupIsDestroyed[p]
        /\ Len(m_Tasks[p]) = MaxTasks

\* C20: for every pool value in every reachable state, thread_ids() has as
\* many entries as thread_count() says; the tokens are those of the handles
\* the pool value holds, position by position, hence pairwise distinct, and
\* they are in spawn order.
C20_IdsMatchThreads ==
    \A p \in Pools :
        /\ Len(thread_ids(p)) = thread_count(p)
        /\ thread_ids(p) = m_Threads[p]
        /\ \A i \in 1..Len(thread_ids(p)), j \in 1..Len(thread_ids(p)) :
              /\ i # j => thread_ids(p)[i] # thread_ids(p)[j]
              /\ i < j => thread_ids(p)[i] < thread_ids(p)[j]

\* a moved-from pool value with no handle and no token beside the pool
\* value that took over all workers
C20_Witness ==
    \E dst \in Pools, src \in Pools :
        /\ pstate[dst] = "alive" /\ pstate[src] = "alive"
        /\ m_SharedData[src] = nullptr
        /\ thread_count(src) = 0 /\ thread_ids(src) = << >>
        /\ m_SharedData[dst] = src
        /\ thread_count(dst) = MaxWorkers /\ Len(thread_ids(dst)) = MaxWorkers

\* a move of pool value src into pool value dst can be written in this state
MoveTarget(dst, src) ==
    pstate[src] = "alive" /\ (pstate[dst] = "alive" \/ FreshSlot(dst))

\* C21, as stated: after any move construction or move assignment the
\* source holds no shared data reference and the destination holds the one
\* the source held.
C21_MoveEmptiesSource ==
    \A dst \in Pools, src \in Pools : MoveTarget(dst, src) =>
        /\ MovedSharedData(dst, src)[src] = nullptr
        /\ MovedSharedData(dst, src)[dst] = m_SharedData[src]

\* C21, amended: a move between two different pool values leaves the
\* source without a shared data reference and the destination with the
\* reference the source held, and the use count of that shared data is as
\* it was; a move assignment of a pool value to itself leaves its reference
\* in place. A reference a pool value holds names live shared data, and
\* add_tasks and try_get_task can be called exactly on the live pool values
\* that hold a reference.
C21_MoveTransfersReference ==
    /\ [](\A dst \in Pools, src \in Pools : MoveTarget(dst, src) =>
             IF dst = src
             THEN MovedSharedData(dst, src) = m_SharedData
             ELSE /\ MovedSharedData(dst, src)[src] = nullptr
                  /\ MovedSharedData(dst, src)[dst] = m_SharedData[src])
    /\ [](\A p \in Pools :
             /\ m_SharedData[p] # nullptr =>
                   pstate[p] # "destroyed" /\ sstate[m_SharedData[p]] = "live"
             /\ crashed = "no" /\ x.pc = "idle" =>
                   (ENABLED XCall(p) <=>
                       pstate[p] = "alive" /\ ~InDtor(p) /\ m_SharedData[p] # nullptr)
             /\ crashed = "no" /\ nextTask <= MaxTasks =>
                   (ENABLED AddTask(p) <=>
                       pstate[p] = "alive" /\ ~InDtor(p) /\ m_SharedData[p] # nullptr))
    /\ [][\A dst \in Pools, src \in Pools :
             (MoveAssign(dst, src) \/ MoveCtor(dst, src)) /\ dst # src =>
                 /\ m_SharedData'[src] = nullptr
                 /\ m_SharedData'[dst] = m_SharedData[src]
                 /\ m_SharedData[src] # nullptr =>
                       /\ refs'[m_SharedData[src]] = refs[m_SharedData[src]]
                       /\ sstate'[m_SharedData[src]] = "live"]_vars

\* a pool value holds the shared data another pool value was constructed
\* with, whose use count is still one for the pool and one for each worker,
\* and the other pool value, still alive, holds nothing
C21_Witness ==
    \E dst \in Pools, src \in Pools :
        /\ dst # src /\ crashed = "no"
        /\ pstate[dst] = "alive" /\ pstate[src] = "alive"
        /\ m_SharedData[src] = nullptr /\ m_SharedData[dst] = src
        /\ refs[src] = 1 + MaxWorkers
        /\ \A w \in Workers : Running(w) /\ wshared[w] = src

\* C22: the termination flag of shared data is written only by a
\* destructor that starts on a pool value owning at least one worker, and
\* it is the flag of that pool value's shared data; a worker goes to EXITED
\* only while the destructor of the pool value holding its handle is at
\* work, so a worker polling an empty queue does not exit on its own; and
\* the destructor of a pool value without workers, moved-from or not,
\* changes no flag and no worker's position.
C22_WorkersLiveAsLongAsOwner ==
    /\ [][\A s \in Shared : m_GroupIsDestroyed'[s] # m_GroupIsDestroyed[s] =>
             /\ op.kind = "idle" /\ op'.kind = "dtor"
             /\ OwnsThreads(op'.dst)
             /\ m_SharedData[op'.dst] = s]_vars
    /\ [][\A w \in Workers : pc[w] # "exited" /\ pc'[w] = "exited" =>
             /\ op.kind = "dtor"
             /\ w \in Range(m_Threads[op.dst])]_vars
    /\ [][\A p \in Pools : Dtor(p) /\ thread_count(p) = 0 =>
             m_GroupIsDestroyed' = m_GroupIsDestroyed /\ pc' = pc]_vars
    /\ [](\A w \in Workers :
             pc[w] = "exited" =>
                 \/ joined[w] /\ OwnersOf(w) = {}
                 \/ op.kind = "dtor" /\ w \in Range(m_Threads[op.dst]))

\* a pool value without workers was destroyed while every worker, all of
\* another pool value, goes on polling an empty queue with the flag false
C22_Witness ==
    /\ \E p \in Pools : pstate[p] = "destroyed"
    /\ nextWorker = MaxWorkers + 1
    /\ \A w \in Workers :
          /\ pc[w] = "flag"
          /\ m_Tasks[wshared[w]] = << >>
          /\ ~m_GroupIsDestroyed[wshared[w]]

====
